---- MODULE Spec2Model ----
(***************************************************************************)
(* lagomorph: FluidMetric (metric.py) and AdjRep (adjrep.py).              *)
(*                                                                         *)
(* Arrays are flat C-order buffers (sequences) with a shape.  Real values  *)
(* are exact rationals <<n, d>>, d > 0 in lowest terms; <<0, 0>> is the    *)
(* result of a division by zero (NaN), which every operation propagates.   *)
(* Complex values are pairs <<re, im>> of rationals.  The grid axes of a   *)
(* FluidMetric have length 1, 2 or 4, for which the sine and cosine tables *)
(* are rational.                                                           *)
(***************************************************************************)
EXTENDS Integers, Sequences, FiniteSets, TLC

(***************************************************************************)
(* Exact arithmetic                                                        *)
(***************************************************************************)
Abs(n) == IF n < 0 THEN -n ELSE n

RECURSIVE Gcd(_, _)
Gcd(a, b) == IF b = 0 THEN a ELSE Gcd(b, a % b)

Rat(n, d) ==
    IF d = 0 THEN <<0, 0>>
    ELSE IF n = 0 THEN <<0, 1>>
    ELSE LET g == Gcd(Abs(n), Abs(d))
             s == IF d < 0 THEN -1 ELSE 1
         IN  <<(s * n) \div g, (s * d) \div g>>

NaN == <<0, 0>>
R0 == <<0, 1>>
R1 == <<1, 1>>
RInt(n) == <<n, 1>>

RAdd(a, b) ==
    IF a[2] = b[2] THEN Rat(a[1] + b[1], a[2])
    ELSE IF a[2] = 0 \/ b[2] = 0 THEN NaN
    ELSE LET g == Gcd(a[2], b[2])
         IN  Rat(a[1] * (b[2] \div g) + b[1] * (a[2] \div g), (a[2] \div g) * b[2])
RNeg(a) == <<-a[1], a[2]>>
RSub(a, b) == RAdd(a, RNeg(b))
RMul(a, b) ==
    IF a[2] = 1 /\ b[2] = 1 THEN <<a[1] * b[1], 1>>
    ELSE IF a[2] = 0 \/ b[2] = 0 THEN NaN
    ELSE IF a[1] = 0 \/ b[1] = 0 THEN R0
    ELSE LET g == Gcd(Abs(a[1]), b[2])
             h == Gcd(Abs(b[1]), a[2])
         IN  <<(a[1] \div g) * (b[1] \div h), (a[2] \div h) * (b[2] \div g)>>
RDiv(a, b) ==
    IF b[1] = 0 THEN NaN
    ELSE IF b[1] < 0 THEN RMul(a, <<-b[2], -b[1]>>)
    ELSE RMul(a, <<b[2], b[1]>>)

C0 == <<R0, R0>>
CAdd(x, y) == <<RAdd(x[1], y[1]), RAdd(x[2], y[2])>>
CScale(r, x) == <<RMul(r, x[1]), RMul(r, x[2])>>
CConj(x) == <<x[1], RNeg(x[2])>>
\* x * i^q, q counted in quarter turns
CRot(x, q) ==
    CASE q % 4 = 0 -> x
      [] q % 4 = 1 -> <<RNeg(x[2]), x[1]>>
      [] q % 4 = 2 -> <<RNeg(x[1]), RNeg(x[2])>>
      [] q % 4 = 3 -> <<x[2], RNeg(x[1])>>

(***************************************************************************)
(* Array indexing (C order)                                                *)
(***************************************************************************)
RECURSIVE Prod(_)
Prod(s) == IF s = <<>> THEN 1 ELSE s[1] * Prod(Tail(s))

\* the multi-index of 0-based linear position lin in an array of shape s
RECURSIVE Unravel(_, _)
Unravel(lin, s) ==
    IF s = <<>> THEN <<>>
    ELSE LET r == Prod(Tail(s))
         IN  <<lin \div r>> \o Unravel(lin % r, Tail(s))

RECURSIVE Ravel(_, _)
Ravel(idx, s) ==
    IF s = <<>> THEN 0
    ELSE idx[1] * Prod(Tail(s)) + Ravel(Tail(idx), Tail(s))

\* the buffer <<Op(1), ..., Op(n)>>
RECURSIVE MkRange(_, _, _)
MkRange(Op(_), lo, hi) ==
    IF lo > hi THEN <<>>
    ELSE IF lo = hi THEN <<Op(lo)>>
    ELSE LET mid == (lo + hi) \div 2
         IN  MkRange(Op, lo, mid) \o MkRange(Op, mid + 1, hi)

MkSeq(Op(_), n) == MkRange(Op, 1, n)

\* Op(lo) + ... + Op(hi), over the rationals and over the complex numbers
RECURSIVE RSum(_, _, _)
RSum(Op(_), lo, hi) ==
    IF lo > hi THEN R0
    ELSE IF lo = hi THEN Op(lo)
    ELSE LET mid == (lo + hi) \div 2
         IN  RAdd(RSum(Op, lo, mid), RSum(Op, mid + 1, hi))

RECURSIVE CSum(_, _, _)
CSum(Op(_), lo, hi) ==
    IF lo > hi THEN C0
    ELSE IF lo = hi THEN Op(lo)
    ELSE LET mid == (lo + hi) \div 2
         IN  CAdd(CSum(Op, lo, mid), CSum(Op, mid + 1, hi))

(***************************************************************************)
(* The transform backend (skcuda.fft on a cuFFT plan): real-to-complex     *)
(* forward transform and complex-to-real inverse transform over the        *)
(* spatial axes, batched over the two leading axes.                        *)
(***************************************************************************)
Spatial(s) == SubSeq(s, 3, Len(s))

\* the half-spectrum shape: last axis folded to N \div 2 + 1
HalfShape(s) == SubSeq(s, 1, Len(s) - 1) \o <<s[Len(s)] \div 2 + 1>>

\* the phase k.n/N of a frequency k at a point n, in quarter turns
RECURSIVE Quarter(_, _, _)
Quarter(k, n, S) ==
    IF S = <<>> THEN 0
    ELSE (k[1] * n[1] * (4 \div S[1]) + Quarter(Tail(k), Tail(n), Tail(S))) % 4

\* the forward sum over the points 0..P-1 of one batch entry
FwdSum(x, base, k, S, P) ==
    LET Term(p) == CRot(<<x[base + p + 1], R0>>, 3 * Quarter(k, Unravel(p, S), S))
    IN  CSum(Term, 0, P - 1)

\* skcuda.fft.fft: the R2C transform of the real buffer x under a plan
\* [shape, batch]; scale divides by x.size / plan.batch
Rfft(x, plan, scale) ==
    LET S  == plan.shape
        P  == Prod(S)
        HS == SubSeq(S, 1, Len(S) - 1) \o <<S[Len(S)] \div 2 + 1>>
        Q  == Prod(HS)
        a  == Len(x) \div plan.batch
        Bin(i) == LET bc == (i - 1) \div Q
                      k  == Unravel((i - 1) % Q, HS)
                      v  == FwdSum(x, bc * P, k, S, P)
                  IN  IF scale THEN CScale(Rat(1, a), v) ELSE v
    IN  MkSeq(Bin, plan.batch * Q)

\* the frequency -k modulo the grid
RECURSIVE Mirror(_, _)
Mirror(k, S) ==
    IF S = <<>> THEN <<>>
    ELSE <<(S[1] - k[1]) % S[1]>> \o Mirror(Tail(k), Tail(S))

\* the full-spectrum value at frequency k, from the half spectrum by
\* Hermitian symmetry
Hermitian(F, base, k, S, HS) ==
    IF k[Len(k)] < HS[Len(HS)]
    THEN F[base + Ravel(k, HS) + 1]
    ELSE CConj(F[base + Ravel(Mirror(k, S), HS) + 1])

\* the real part of the inverse sum over the full spectrum 0..P-1
InvSum(F, base, n, S, HS, P) ==
    LET Term(q) == LET k == Unravel(q, S)
                   IN  CRot(Hermitian(F, base, k, S, HS), Quarter(k, n, S))[1]
    IN  RSum(Term, 0, P - 1)

\* skcuda.fft.ifft: the C2R transform of the half-spectrum buffer F into a
\* real buffer of ysize elements; scale divides by y.size / plan.batch
Irfft(F, plan, ysize, scale) ==
    LET S  == plan.shape
        P  == Prod(S)
        HS == SubSeq(S, 1, Len(S) - 1) \o <<S[Len(S)] \div 2 + 1>>
        Q  == Prod(HS)
        a  == ysize \div plan.batch
        Pt(i) == LET bc == (i - 1) \div P
                     n  == Unravel((i - 1) % P, S)
                     v  == InvSum(F, bc * Q, n, S, HS, P)
                 IN  IF scale THEN RMul(Rat(1, a), v) ELSE v
    IN  MkSeq(Pt, plan.batch * P)

(***************************************************************************)
(* FluidMetric: lookup tables and the per-frequency operator               *)
(***************************************************************************)
\* 1 - cos(2 pi k / N) and sin(2 pi k / N) for N in {1, 2, 4}
OneMinusCos(N, k) == RInt(<<0, 1, 2, 1>>[((k * (4 \div N)) % 4) + 1])
Sin(N, k) == RInt(<<0, 1, 0, -1>>[((k * (4 \div N)) % 4) + 1])

\* one table of length N per spatial axis
initialize_luts(shape) ==
    LET S == Spatial(shape)
    IN  [cos |-> [d \in 1..Len(S) |-> [k \in 1..S[d] |-> OneMinusCos(S[d], k - 1)]],
         sin |-> [d \in 1..Len(S) |-> [k \in 1..S[d] |-> Sin(S[d], k - 1)]]]

\* the symmetric 2 x 2 symbol A(xi) at frequency (i, j): <<L00, L10, L11>>
Symbol2d(cosX, sinX, cosY, sinY, alpha, beta, gamma, i, j) ==
    LET wx == cosX[i + 1]
        wy == cosY[j + 1]
        lambda == RAdd(gamma, RMul(alpha, RAdd(wx, wy)))
    IN  <<RAdd(lambda, RMul(beta, wx)),
          RMul(beta, RMul(sinX[i + 1], sinY[j + 1])),
          RAdd(lambda, RMul(beta, wy))>>

\* A(xi) applied to the complex 2-vector <<b0, b1>>
OperatorMultiply(L, b0, b1) ==
    <<CAdd(CScale(L[1], b0), CScale(L[2], b1)),
      CAdd(CScale(L[2], b0), CScale(L[3], b1))>>

\* A(xi)^-1 applied to <<b0, b1>>, by the closed-form 2 x 2 inverse
InverseOperatorMultiply(L, b0, b1) ==
    LET det == RSub(RMul(L[1], L[3]), RMul(L[2], L[2]))
        inv == RDiv(R1, det)
    IN  <<CScale(inv, CAdd(CScale(L[3], b0), CScale(RNeg(L[2]), b1))),
          CScale(inv, CAdd(CScale(L[1], b1), CScale(RNeg(L[2]), b0)))>>

\* the elementwise kernel over a buffer of shape <<nn, 2, nx, ny>>
operator_2d(Fm, cosX, sinX, cosY, sinY, alpha, beta, gamma, nn, nx, ny, inverse) ==
    LET Elt(p) ==
            LET idx == Unravel(p - 1, <<nn, 2, nx, ny>>)
                L   == Symbol2d(cosX, sinX, cosY, sinY, alpha, beta, gamma, idx[3], idx[4])
                b0  == Fm[Ravel(<<idx[1], 0, idx[3], idx[4]>>, <<nn, 2, nx, ny>>) + 1]
                b1  == Fm[Ravel(<<idx[1], 1, idx[3], idx[4]>>, <<nn, 2, nx, ny>>) + 1]
                r   == IF inverse THEN InverseOperatorMultiply(L, b0, b1)
                                  ELSE OperatorMultiply(L, b0, b1)
            IN  r[idx[2] + 1]
    IN  MkSeq(Elt, Len(Fm))

inverse_operator_2d(Fm, cosX, sinX, cosY, sinY, alpha, beta, gamma, nn, nx, ny) ==
    operator_2d(Fm, cosX, sinX, cosY, sinY, alpha, beta, gamma, nn, nx, ny, TRUE)

forward_operator_2d(Fm, cosX, sinX, cosY, sinY, alpha, beta, gamma, nn, nx, ny) ==
    operator_2d(Fm, cosX, sinX, cosY, sinY, alpha, beta, gamma, nn, nx, ny, FALSE)

\* the 3-D branch falling through instead of raising
operator_fourier_silent(me, Fm, inverse) ==
    IF me.dim = 2
    THEN [exc |-> "none",
          Fm  |-> operator_2d(Fm, me.luts.cos[1], me.luts.sin[1], me.luts.cos[2],
                      me.luts.sin[2], me.alpha, me.beta, me.gamma, me.complexshape[1],
                      me.complexshape[3], me.complexshape[4], inverse)]
    ELSE [exc |-> "none", Fm |-> Fm]

\* operator_fourier on the instance me: the new contents of Fm, or the
\* exception raised
operator_fourier(me, Fm, inverse) ==
    IF me.dim = 2
    THEN [exc |-> "none",
          Fm  |-> IF inverse
                  THEN inverse_operator_2d(Fm, me.luts.cos[1], me.luts.sin[1],
                           me.luts.cos[2], me.luts.sin[2], me.alpha, me.beta, me.gamma,
                           me.complexshape[1], me.complexshape[3], me.complexshape[4])
                  ELSE forward_operator_2d(Fm, me.luts.cos[1], me.luts.sin[1],
                           me.luts.cos[2], me.luts.sin[2], me.alpha, me.beta, me.gamma,
                           me.complexshape[1], me.complexshape[3], me.complexshape[4])]
    ELSE IF me.dim = 3
    THEN [exc |-> "NotImplementedError", Fm |-> Fm]
    ELSE [exc |-> "none", Fm |-> Fm]


(***************************************************************************)
(* The differential operator suite (lagomorph.diff, lagomorph.deform) on   *)
(* real buffers of shape s = <<N, C, spatial...>>: periodic central        *)
(* differences and multilinear interpolation.                              *)
(***************************************************************************)
\* the linear position of point pt moved by delta along spatial axis j
Shift(pt, S, j, delta) ==
    Ravel([pt EXCEPT ![j] = (pt[j] + delta + S[j]) % S[j]], S)

\* the derivative along spatial axis j of component c of f, at (b, pt)
Partial(f, s, b, c, pt, j) ==
    LET S == Spatial(s)
        P == Prod(S)
        base == (b * s[2] + c) * P
    IN  RMul(Rat(1, 2), RSub(f[base + Shift(pt, S, j, 1) + 1],
                              f[base + Shift(pt, S, j, -1) + 1]))

\* (Dv) w, or (Dv)^T w when transpose
jacobian_times_vectorfield(v, w, transpose, s) ==
    LET S == Spatial(s)
        P == Prod(S)
        Elt(p) ==
            LET idx == Unravel(p - 1, <<s[1], s[2], P>>)
                b   == idx[1]
                i   == idx[2]
                pt  == Unravel(idx[3], S)
                Term(j) == RMul(IF transpose THEN Partial(v, s, b, j - 1, pt, i + 1)
                                             ELSE Partial(v, s, b, i, pt, j),
                                w[(b * s[2] + (j - 1)) * P + idx[3] + 1])
            IN  RSum(Term, 1, Len(S))
    IN  MkSeq(Elt, Len(v))

\* div v, a buffer of shape <<N, spatial...>>
divergence(v, s) ==
    LET S == Spatial(s)
        P == Prod(S)
        Elt(p) ==
            LET b  == (p - 1) \div P
                pt == Unravel((p - 1) % P, S)
                Term(j) == Partial(v, s, b, j - 1, pt, j)
            IN  RSum(Term, 1, Len(S))
    IN  MkSeq(Elt, s[1] * P)

\* the value of component c of m at the rational position pos: multilinear
\* interpolation, axis by axis, on the periodic grid
RECURSIVE Interp(_, _, _, _, _)
Interp(m, base, pos, S, idx) ==
    IF Len(idx) = Len(S) THEN m[base + Ravel(idx, S) + 1]
    ELSE LET d  == Len(idx) + 1
             N  == S[d]
             lo == pos[d][1] \div pos[d][2]
             fr == RSub(pos[d], RInt(lo))
             i0 == ((lo % N) + N) % N
         IN  IF fr = R0
             THEN Interp(m, base, pos, S, Append(idx, i0))
             ELSE RAdd(RMul(RSub(R1, fr), Interp(m, base, pos, S, Append(idx, i0))),
                       RMul(fr, Interp(m, base, pos, S, Append(idx, (i0 + 1) % N))))

\* m o phi: m sampled at the positions phi gives for each grid point
interp_def(m, phi, s) ==
    LET S == Spatial(s)
        P == Prod(S)
        Elt(p) ==
            LET idx == Unravel(p - 1, <<s[1], s[2], P>>)
                pos == [d \in 1..Len(S) |->
                           phi[(idx[1] * s[2] + (d - 1)) * P + idx[3] + 1]]
            IN  IF \E d \in 1..Len(S) : pos[d] = NaN THEN NaN
                ELSE Interp(m, (idx[1] * s[2] + idx[2]) * P, pos, S, <<>>)
    IN  MkSeq(Elt, Len(m))

\* elementwise helpers on real buffers
VAdd(a, b) == LET Elt(p) == RAdd(a[p], b[p]) IN MkSeq(Elt, Len(a))
VSub(a, b) == LET Elt(p) == RSub(a[p], b[p]) IN MkSeq(Elt, Len(a))
VNeg(a) == LET Elt(p) == RNeg(a[p]) IN MkSeq(Elt, Len(a))
\* m * dv.expand_dims(1): dv broadcast across the components of m
VScaleBy(m, dv, s) ==
    LET P == Prod(Spatial(s))
        Elt(p) == RMul(m[p], dv[((p - 1) \div (s[2] * P)) * P + ((p - 1) % P) + 1])
    IN  MkSeq(Elt, Len(m))

(***************************************************************************)
(* AdjRep: the operators that need no metric                               *)
(***************************************************************************)
ad(v, w, s) ==
    VSub(jacobian_times_vectorfield(v, w, FALSE, s),
         jacobian_times_vectorfield(w, v, FALSE, s))

\* the first Jacobian term taken without the transpose
ad_star_untransposed(v, m, s) ==
    VAdd(VAdd(jacobian_times_vectorfield(v, m, FALSE, s),
              jacobian_times_vectorfield(m, v, FALSE, s)),
         VScaleBy(m, divergence(v, s), s))

ad_star(v, m, s) ==
    LET out == VAdd(jacobian_times_vectorfield(v, m, TRUE, s),
                    jacobian_times_vectorfield(m, v, FALSE, s))
        dv  == divergence(v, s)
    IN  VAdd(out, VScaleBy(m, dv, s))

Ad_star(phi, m, s) ==
    LET mphi == interp_def(m, phi, s)
    IN  jacobian_times_vectorfield(phi, mphi, FALSE, s)


(***************************************************************************)
(* Arrays, results and the FluidMetric instance                            *)
(***************************************************************************)
\* a device array: shape, buffer and the c_contiguous flag
Arr(s, d, c) == [shape |-> s, data |-> d, contig |-> c]

\* what a call ends with: a returned buffer, or the exception raised
Returned(d) == [exc |-> "none", data |-> d]
Raised(e) == [exc |-> e, data |-> <<>>]

\* a buffer of n copies of v (what an uninitialised allocation holds)
Fill(n, v) == LET Elt(i) == v IN MkSeq(Elt, n)

NoPlan == [set |-> FALSE, shape |-> <<>>, in |-> "", out |-> "", batch |-> 0]
Plan(S, in, out, batch) == [set |-> TRUE, shape |-> S, in |-> in, out |-> out, batch |-> batch]
NoLuts == [cos |-> <<>>, sin |-> <<>>]

\* the instance before __init__ has assigned anything
Blank ==
    [shape |-> <<>>, complexshape |-> <<>>, alpha |-> R0, beta |-> R0, gamma |-> R0,
     dim |-> 0, precision |-> "", dtype |-> "", complex_dtype |-> "",
     Fv |-> <<>>, luts |-> NoLuts, fftplan |-> NoPlan, ifftplan |-> NoPlan]

\* the ill-conditioning check of __init__: its guard ends in "and False"
Warns(alpha, beta, gamma) == (gamma <= 4 * alpha + 2 * beta) /\ FALSE

\* FluidMetric.__init__: the attributes assigned, how it ended, what it printed
\* (junk is what the uninitialised scratch buffer happens to hold)
FluidMetricInit(shape, alpha, beta, gamma, precision, junk) ==
    IF Len(shape) = 0
    THEN [me |-> [Blank EXCEPT !.shape = shape], end |-> "IndexError", out |-> <<>>]
    ELSE
    LET a1 == [Blank EXCEPT !.shape = shape, !.complexshape = HalfShape(shape),
                            !.alpha = RInt(alpha), !.beta = RInt(beta),
                            !.gamma = RInt(gamma), !.dim = Len(shape) - 2]
        out == IF Warns(alpha, beta, gamma)
               THEN <<"WARNING: ill-conditioned kernel">> ELSE <<>>
    IN  IF a1.dim # 2 /\ a1.dim # 3
        THEN [me |-> a1, end |-> "InvalidDimension", out |-> out]
        ELSE IF precision \notin {"single", "double"}
        THEN [me |-> [a1 EXCEPT !.precision = precision],
              end |-> "UnsupportedPrecision", out |-> out]
        ELSE
        LET real == IF precision = "single" THEN "float32" ELSE "float64"
            cplx == IF precision = "single" THEN "complex64" ELSE "complex128"
        IN  [me |-> [a1 EXCEPT
                        !.precision = precision, !.dtype = real, !.complex_dtype = cplx,
                        !.Fv = Fill(Prod(a1.complexshape), <<RInt(junk), RInt(junk)>>),
                        !.luts = initialize_luts(shape),
                        !.fftplan = Plan(Spatial(shape), real, cplx, shape[1] * shape[2]),
                        !.ifftplan = Plan(Spatial(shape), cplx, real, shape[1] * shape[2])],
             end |-> "ok", out |-> out]

(***************************************************************************)
(* sharp and flat, step by step.  Each step reads or writes the scratch    *)
(* buffer Fv as one device operation.                                      *)
(***************************************************************************)
\* the assertion left out: a strided input goes on into the transform
PreconditionOff(m) == TRUE

\* the assertion of lines 96 and 110
Precondition(m) == m.contig

\* which transform leg is scaled (lines 100, 102, 114, 116) and which
\* operator is applied (lines 101, 115)
FftScale(kind) == kind = "sharp"
\* scale=True on the inverse leg of sharp as well
IfftScaleAlways(kind) == TRUE
IfftScale(kind) == kind = "flat"
Inverse(kind) == kind = "sharp"

\* lines 100 and 114: the forward transform of m, to go into the scratch buffer
metric_fft(me, kind, m) == Rfft(m, me.fftplan, FftScale(kind))

\* lines 101 and 115: the operator applied in place on the scratch buffer
metric_operator(me, kind, Fv) == operator_fourier(me, Fv, Inverse(kind))

\* lines 102 and 116: the inverse transform of the scratch buffer into out
metric_ifft(me, kind, Fv, n) == Irfft(Fv, me.ifftplan, n, IfftScale(kind))

\* a transform that leaves the first element of the buffer as it was
WriteFvPartial(me, new) == [me EXCEPT !.Fv = <<me.Fv[1]>> \o Tail(new)]

\* a transform whose result never reaches the buffer
WriteFvLost(me, new) == me

\* a write that also drops the forward plan
WriteFvReplan(me, new) == [me EXCEPT !.Fv = new, !.fftplan = NoPlan]

\* the instance after a transform or a kernel has written self.Fv: the
\* whole buffer is overwritten, nothing else is assigned
WriteFv(me, new) == [me EXCEPT !.Fv = new]

\* a whole call run with nothing else touching the instance
metric_call(me, kind, m) ==
    IF ~Precondition(m) THEN Raised("AssertionError")
    ELSE LET F == metric_operator(me, kind, metric_fft(me, kind, m.data))
         IN  IF F.exc # "none" THEN Raised(F.exc)
             ELSE Returned(metric_ifft(me, kind, F.Fm, Len(m.data)))

sharp(me, m) == metric_call(me, "sharp", m)
flat(me, m) == metric_call(me, "flat", m)

(***************************************************************************)
(* AdjRep: the operators built on a metric, run with nothing else touching *)
(* the metric                                                              *)
(***************************************************************************)
Ad(phi, v) == Raised("NotImplementedError")

ad_dagger(x, y, me) ==
    LET m == flat(me, y)
    IN  IF m.exc # "none" THEN m
        ELSE sharp(me, Arr(y.shape, ad_star(x.data, m.data, y.shape), TRUE))

Ad_dagger(phi, y, me) ==
    LET m == flat(me, y)
    IN  IF m.exc # "none" THEN m
        ELSE sharp(me, Arr(y.shape, Ad_star(phi.data, m.data, y.shape), TRUE))

sym(x, y, me) ==
    LET a == ad_dagger(x, y, me)
    IN  IF a.exc # "none" THEN a
        ELSE LET b == ad_dagger(y, x, me)
             IN  IF b.exc # "none" THEN b
                 ELSE Returned(VNeg(VAdd(a.data, b.data)))

sym_dagger(x, y, me) ==
    LET a == ad_dagger(y, x, me)
    IN  IF a.exc # "none" THEN a
        ELSE Returned(VSub(a.data, ad(x.data, y.data, x.shape)))


(***************************************************************************)
(* The state                                                               *)
(***************************************************************************)
VARIABLES
    self,    \* the FluidMetric instance: its attributes
    ctor,    \* how FluidMetric.__init__ ended: "none" before it ran
    given,   \* the arguments FluidMetric.__init__ was called with
    stdout,  \* the lines printed
    adj,     \* the AdjRep instance: [dim], 0 before AdjRep.__init__
    pc,      \* per caller: where its call stands
    frame,   \* per caller: the call's arguments, arrays and progress
    ncalls   \* calls issued so far

vars == <<self, ctor, given, stdout, adj, pc, frame, ncalls>>

Callers == {1, 2}
\* calls issued in one behaviour
MaxCalls == 2

MetricOps == {"sharp", "flat"}
DaggerOps == {"ad_dagger", "Ad_dagger", "sym", "sym_dagger"}
PlainOps == {"ad", "Ad", "ad_star", "Ad_star"}

\* a caller's frame.  heap holds the arrays of the call: the arguments first
\* (x at 1, y at 2, a supplied out or Fm at 3), then every array the call
\* allocates; m, out, acc and ret.ref are positions in it.
NoFrame ==
    [op |-> "", args |-> <<>>, inv |-> FALSE, outarg |-> 0, stage |-> 0, kind |-> "",
     m |-> 0, out |-> 0, acc |-> 0, heap |-> <<>>, ret |-> [exc |-> "none", ref |-> 0],
     log |-> <<>>, raced |-> FALSE, overlap |-> FALSE, direct |-> FALSE, dim |-> 0]

InMetric(c) == pc[c] \in {"enter", "operator", "ifft"}

Init ==
    /\ self = Blank
    /\ ctor = "none"
    /\ given = [shape |-> <<>>, alpha |-> 0, beta |-> 0, gamma |-> 0, precision |-> ""]
    /\ stdout = <<>>
    /\ adj = [dim |-> 0]
    /\ pc = [c \in Callers |-> "idle"]
    /\ frame = [c \in Callers |-> NoFrame]
    /\ ncalls = 0

(***************************************************************************)
(* Construction                                                            *)
(***************************************************************************)
Construct(shape, alpha, beta, gamma, precision, junk) ==
    /\ ctor = "none"
    /\ LET r == FluidMetricInit(shape, alpha, beta, gamma, precision, junk)
       IN  /\ self' = r.me
           /\ ctor' = r.end
           /\ stdout' = stdout \o r.out
    /\ given' = [shape |-> shape, alpha |-> alpha, beta |-> beta, gamma |-> gamma,
                 precision |-> precision]
    /\ UNCHANGED <<adj, pc, frame, ncalls>>

\* AdjRep.__init__
AdjRepInit(dim) ==
    /\ adj.dim = 0
    /\ adj' = [dim |-> dim]
    /\ UNCHANGED <<self, ctor, given, stdout, pc, frame, ncalls>>

(***************************************************************************)
(* Calls                                                                   *)
(***************************************************************************)
\* the frames of the other callers once caller c has written the scratch
\* buffer: a call between its forward and its inverse transform has lost what
\* it had there
Disturb(c, fr) ==
    [d \in Callers |->
        IF d # c /\ pc[d] \in {"operator", "ifft"}
        THEN [fr[d] EXCEPT !.raced = TRUE] ELSE fr[d]]

\* every caller inside a metric call while another one is, overlaps; direct
\* when the other one called sharp or flat itself
Overlaps(fr, p) ==
    [d \in Callers |->
        LET others == {e \in Callers \ {d} : p[e] \in {"enter", "operator", "ifft"}}
        IN  IF p[d] \in {"enter", "operator", "ifft"} /\ others # {}
            THEN [fr[d] EXCEPT !.overlap = TRUE,
                               !.direct = @ \/ \E e \in others : fr[e].op \in MetricOps]
            ELSE fr[d]]

\* the argument the first flat of a dagger operator is applied to
FirstFlat(op) == IF op = "sym_dagger" THEN 1 ELSE 2

\* the result of an operator that touches no metric
PlainResult(op, x, y) ==
    CASE op = "ad"      -> Returned(ad(x.data, y.data, x.shape))
      [] op = "ad_star" -> Returned(ad_star(x.data, y.data, x.shape))
      [] op = "Ad_star" -> Returned(Ad_star(x.data, y.data, x.shape))
      [] op = "Ad"      -> Ad(x, y)

\* caller c issues op(x, y): sharp and flat take x (and out when outsup),
\* the AdjRep operators take x and y and the metric
Call(c, op, x, y, outsup) ==
    /\ op \in MetricOps \cup DaggerOps => ctor = "ok"
    /\ op \in DaggerOps \cup PlainOps => adj.dim # 0
    /\ pc[c] = "idle"
    /\ ncalls < MaxCalls
    /\ ncalls' = ncalls + 1
    /\ LET f0 == [NoFrame EXCEPT !.op = op, !.args = <<x, y>>, !.heap = <<x, y>>,
                                 !.stage = 1, !.dim = adj.dim]
       IN  IF op \in MetricOps
           THEN /\ pc' = [pc EXCEPT ![c] = "enter"]
                /\ frame' = Overlaps([frame EXCEPT ![c] =
                    [f0 EXCEPT !.kind = op, !.m = 1,
                               !.outarg = IF outsup THEN 3 ELSE 0,
                               !.heap = IF outsup
                                        THEN <<x, y, Arr(x.shape, Fill(Len(x.data), R0), TRUE)>>
                                        ELSE <<x, y>>]], pc')
           ELSE IF op \in DaggerOps
           THEN /\ pc' = [pc EXCEPT ![c] = "enter"]
                /\ frame' = Overlaps([frame EXCEPT ![c] =
                    [f0 EXCEPT !.kind = "flat", !.m = FirstFlat(op)]], pc')
           ELSE LET r == PlainResult(op, x, y)
                IN  /\ frame' = [frame EXCEPT ![c] =
                        [f0 EXCEPT !.heap = IF r.exc = "none"
                                            THEN <<x, y, Arr(x.shape, r.data, TRUE)>>
                                            ELSE <<x, y>>,
                                   !.ret = [exc |-> r.exc,
                                            ref |-> IF r.exc = "none" THEN 3 ELSE 0]]]
                    /\ pc' = [pc EXCEPT ![c] = "done"]
    /\ UNCHANGED <<self, ctor, given, stdout, adj>>

\* caller c calls operator_fourier(Fm, inverse) on an array of its own
CallOperatorFourier(c, Fm, inverse) ==
    /\ ctor = "ok"
    /\ pc[c] = "idle"
    /\ ncalls < MaxCalls
    /\ ncalls' = ncalls + 1
    /\ LET r == operator_fourier(self, Fm.data, inverse)
       IN  /\ frame' = [frame EXCEPT ![c] =
                [NoFrame EXCEPT !.op = "operator_fourier", !.args = <<Fm, Fm>>,
                                !.inv = inverse, !.stage = 1,
                                !.heap = <<Fm, Fm, [Fm EXCEPT !.data = r.Fm]>>,
                                !.ret = [exc |-> r.exc, ref |-> 0]]]
           /\ pc' = [pc EXCEPT ![c] = "done"]
    /\ UNCHANGED <<self, ctor, given, stdout, adj>>

\* the output written into the input array
OutSlotInput(f, alloc) == f.m

\* lines 97-99, 111-113: where the output goes: a fresh array when no out
\* was supplied (alloc), else the supplied one
OutSlot(f, alloc) == IF alloc THEN Len(f.heap) + 1 ELSE f.outarg

\* lines 96-100 (sharp), 110-114 (flat): the assertions, the allocation of
\* out, the forward transform into self.Fv
Enter(c) ==
    /\ pc[c] = "enter"
    /\ LET f == frame[c]
           m == f.heap[f.m]
       IN  IF ~Precondition(m)
           THEN /\ frame' = [frame EXCEPT ![c] =
                        [f EXCEPT !.ret = [exc |-> "AssertionError", ref |-> 0]]]
                /\ pc' = [pc EXCEPT ![c] = "done"]
                /\ self' = self
           ELSE LET alloc == f.outarg = 0
                    heap1 == IF alloc
                             THEN Append(f.heap, Arr(m.shape, Fill(Len(m.data), R0), TRUE))
                             ELSE f.heap
                    f1 == [f EXCEPT
                             !.heap = heap1,
                             !.out = OutSlot(f, alloc),
                             !.log = f.log
                                     \o (IF alloc THEN <<[step |-> "empty_like", flag |-> FALSE]>>
                                                  ELSE <<>>)
                                     \o (IF f.kind = "flat"
                                         THEN <<[step |-> "astype", flag |-> FALSE]>> ELSE <<>>)
                                     \o <<[step |-> "fft", flag |-> FftScale(f.kind)]>>]
                IN  /\ self' = WriteFv(self, metric_fft(self, f.kind, m.data))
                    /\ pc' = [pc EXCEPT ![c] = "operator"]
                    /\ frame' = Overlaps(Disturb(c, [frame EXCEPT ![c] = f1]), pc')
    /\ UNCHANGED <<ctor, given, stdout, adj, ncalls>>

\* lines 101, 115: operator_fourier in place on self.Fv
Operator(c) ==
    /\ pc[c] = "operator"
    /\ LET f == frame[c]
           r == metric_operator(self, f.kind, self.Fv)
       IN  IF r.exc # "none"
           THEN /\ frame' = [frame EXCEPT ![c] =
                        [f EXCEPT !.ret = [exc |-> r.exc, ref |-> 0]]]
                /\ pc' = [pc EXCEPT ![c] = "done"]
                /\ self' = self
           ELSE /\ self' = WriteFv(self, r.Fm)
                /\ pc' = [pc EXCEPT ![c] = "ifft"]
                /\ frame' = Disturb(c, [frame EXCEPT ![c] =
                        [f EXCEPT !.log = Append(f.log,
                            [step |-> "operator", flag |-> Inverse(f.kind)])]])
    /\ UNCHANGED <<ctor, given, stdout, adj, ncalls>>

\* adjrep.py lines 64-74: what a dagger operator does once the metric call
\* it was waiting for has returned the array at position f.out.  Gives the
\* frame and where the caller stands next.
OnReturn(f) ==
    LET x == f.heap[1]
        y == f.heap[2]
        r == f.heap[f.out]
        \* metric.sharp(self.ad_star(v, <the flat just returned>))
        ThenSharp(t) ==
            [pc |-> "enter",
             f  |-> [f EXCEPT !.heap = Append(f.heap, Arr(r.shape, t, TRUE)),
                              !.m = Len(f.heap) + 1, !.kind = "sharp",
                              !.outarg = 0, !.stage = f.stage + 1]]
        Finish(h, ref) ==
            [pc |-> "done",
             f  |-> [f EXCEPT !.heap = h, !.ret = [exc |-> "none", ref |-> ref]]]
    IN  CASE f.op \in MetricOps -> Finish(f.heap, f.out)
          [] f.op = "ad_dagger" ->
                IF f.stage = 1 THEN ThenSharp(ad_star(x.data, r.data, r.shape))
                ELSE Finish(f.heap, f.out)
          [] f.op = "Ad_dagger" ->
                IF f.stage = 1 THEN ThenSharp(Ad_star(x.data, r.data, r.shape))
                ELSE Finish(f.heap, f.out)
          [] f.op = "sym" ->
                CASE f.stage = 1 -> ThenSharp(ad_star(x.data, r.data, r.shape))
                  [] f.stage = 2 ->
                        [pc |-> "enter",
                         f  |-> [f EXCEPT !.acc = f.out, !.m = 1, !.kind = "flat",
                                          !.outarg = 0, !.stage = 3]]
                  [] f.stage = 3 -> ThenSharp(ad_star(y.data, r.data, r.shape))
                  [] OTHER ->
                        Finish(Append(f.heap,
                                 Arr(r.shape, VNeg(VAdd(f.heap[f.acc].data, r.data)), TRUE)),
                             Len(f.heap) + 1)
          [] f.op = "sym_dagger" ->
                IF f.stage = 1 THEN ThenSharp(ad_star(y.data, r.data, r.shape))
                ELSE Finish(Append(f.heap,
                              Arr(r.shape, VSub(r.data, ad(x.data, y.data, x.shape)), TRUE)),
                          Len(f.heap) + 1)

\* lines 102-103, 116-117: the inverse transform of self.Fv into out, and the
\* return.  A complex-to-real transform may leave its input buffer
\* overwritten (clobber).
Ifft(c, clobber) ==
    /\ pc[c] = "ifft"
    /\ LET f  == frame[c]
           o  == f.heap[f.out]
           f1 == [f EXCEPT
                    !.heap[f.out].data = metric_ifft(self, f.kind, self.Fv, Len(o.data)),
                    !.log = Append(f.log, [step |-> "ifft", flag |-> IfftScale(f.kind)])]
           n  == OnReturn(f1)
       IN  /\ pc' = [pc EXCEPT ![c] = n.pc]
           /\ self' = IF clobber THEN WriteFv(self, Fill(Len(self.Fv), C0)) ELSE self
           /\ frame' = LET fr == [frame EXCEPT ![c] = n.f]
                       IN  Overlaps(IF clobber THEN Disturb(c, fr) ELSE fr, pc')
    /\ UNCHANGED <<ctor, given, stdout, adj, ncalls>>

\* the caller takes the result; its arrays go out of scope
Return(c) ==
    /\ pc[c] = "done"
    /\ pc' = [pc EXCEPT ![c] = "idle"]
    /\ frame' = [frame EXCEPT ![c] = NoFrame]
    /\ UNCHANGED <<self, ctor, given, stdout, adj, ncalls>>

(***************************************************************************)
(* Inputs                                                                  *)
(***************************************************************************)
Shapes2D == {<<1, 2, 4, 4>>, <<1, 2, 2, 2>>, <<2, 2, 1, 4>>}
Shapes3D == {<<1, 3, 2, 2, 2>>}
BadShapes == {<<>>, <<4>>, <<1, 2>>, <<1, 2, 4>>, <<1, 2, 2, 2, 2, 2>>}

\* <<alpha, beta, gamma>>
WellConditioned == {<<0, 1, 3>>, <<1, 0, 5>>, <<1, 1, 7>>}
IllConditioned == {<<1, 1, 1>>, <<1, 1, 0>>, <<0, 0, 0>>}

\* a dense integer-valued field of shape s
FieldData(s, seed) ==
    LET Elt(i) == RInt(((seed * i + i * i) % 5) - 2) IN MkSeq(Elt, Prod(s))

Seeds == {1, 2}

\* contiguous fields of shape s, and a strided view of one
Fields(s) == {Arr(s, FieldData(s, k), TRUE) : k \in Seeds}
Views(s) == {Arr(s, FieldData(s, 1), FALSE)}

\* a frequency-domain array of a caller's own, of half-spectrum shape cs
Spectra(cs) ==
    {Arr(cs, LET Elt(i) == <<RInt((i % 3) - 1), RInt(i % 2)>> IN MkSeq(Elt, Prod(cs)), TRUE)}

(***************************************************************************)
(* Specifications                                                          *)
(***************************************************************************)
\* construction alone, over valid and invalid arguments
NextCtor ==
    \E shape \in Shapes2D \cup Shapes3D \cup BadShapes,
       k \in WellConditioned \cup IllConditioned,
       precision \in {"single", "double", "half"},
       junk \in {0, 1} :
        Construct(shape, k[1], k[2], k[3], precision, junk)

SpecCtor == Init /\ [][NextCtor]_vars

\* no call begins before the one before it has ended
Serial(c) == \A d \in Callers \ {c} : pc[d] \in {"idle", "done"}

\* the other field of the pair
Partner(x) == CHOOSE y \in Fields(x.shape) : y # x

SerialCoefs == {<<0, 1, 3>>, <<1, 1, 7>>, <<1, 1, 0>>}

NextSerial ==
    \/ \E shape \in Shapes2D \cup Shapes3D, k \in SerialCoefs,
          junk \in {0, 1} :
            Construct(shape, k[1], k[2], k[3], "single", junk)
    \/ ctor = "ok" /\ AdjRepInit(self.dim)
    \/ \E c \in {1} :
        \/ /\ Serial(c) /\ adj.dim # 0
           /\ \E op \in MetricOps, x \in Fields(self.shape) \cup Views(self.shape),
                 outsup \in BOOLEAN :
                Call(c, op, x, x, outsup)
        \/ /\ Serial(c) /\ adj.dim # 0
           /\ \E op \in DaggerOps \cup {"Ad"}, x \in Fields(self.shape) :
                Call(c, op, x, Partner(x), FALSE)
        \/ /\ Serial(c) /\ adj.dim # 0
           /\ \E Fm \in Spectra(self.complexshape), inverse \in BOOLEAN :
                CallOperatorFourier(c, Fm, inverse)
        \/ Enter(c)
        \/ Operator(c)
        \/ \E clobber \in BOOLEAN : Ifft(c, clobber)
        \/ Return(c)

SpecSerial == Init /\ [][NextSerial]_vars

\* two callers sharing one FluidMetric and one AdjRep, one call each, their
\* steps interleaved freely
SharedShapes == {<<1, 2, 1, 4>>}

\* what each caller may call, and on which field
SharedMenu(c) ==
    IF c = 1 THEN MetricOps \cup DaggerOps \cup PlainOps
    ELSE {"sharp", "ad_dagger", "ad"}

\* sym makes four metric calls: it is interleaved with sharp, flat and the
\* operators that need no metric, not with another dagger operator
Compatible(c, op) ==
    \A d \in Callers \ {c} :
        /\ op = "sym" => frame[d].op \notin DaggerOps
        /\ op \in DaggerOps => frame[d].op # "sym"

CallerField(c, s) == Arr(s, FieldData(s, c), TRUE)

Next ==
    \/ \E shape \in SharedShapes : Construct(shape, 0, 1, 3, "single", 0)
    \/ ctor = "ok" /\ AdjRepInit(self.dim)
    \/ \E c \in Callers :
        \/ /\ adj.dim # 0
           /\ \E op \in SharedMenu(c) \cap MetricOps :
                Call(c, op, CallerField(c, self.shape), CallerField(c, self.shape), FALSE)
        \/ /\ ctor = "ok" /\ adj.dim # 0
           /\ \E op \in SharedMenu(c) \ MetricOps :
                /\ Compatible(c, op)
                /\ Call(c, op, CallerField(c, self.shape),
                        Partner(CallerField(c, self.shape)), FALSE)
        \/ Enter(c)
        \/ Operator(c)
        \/ \E clobber \in BOOLEAN : Ifft(c, clobber)

Spec == Init /\ [][Next]_vars

\* the AdjRep operators on fields alone: no metric is involved
AdjShapes == {<<1, 2, 3, 3>>}

\* a field whose value is the same at every grid point
ConstantField(s) ==
    LET P == Prod(Spatial(s))
        Elt(i) == RInt((((i - 1) \div P) % s[2]) + 1)
    IN  Arr(s, MkSeq(Elt, Prod(s)), TRUE)

AdjFields(s) == Fields(s) \cup {ConstantField(s)}

NextAdj ==
    \/ \E dim \in {2} : AdjRepInit(dim)
    \/ \E c \in Callers :
        \/ \E op \in {"ad", "ad_star"}, s \in AdjShapes :
            \E x \in AdjFields(s), y \in AdjFields(s) : Call(c, op, x, y, FALSE)
        \/ Return(c)

SpecAdj == Init /\ [][NextAdj]_vars

(***************************************************************************)
(* Properties                                                              *)
(***************************************************************************)
Done(c) == pc[c] = "done"

\* what caller c's finished call gave back
Result(c) ==
    LET f == frame[c]
    IN  IF f.ret.exc # "none" THEN Raised(f.ret.exc)
        ELSE IF f.ret.ref = 0 THEN Returned(<<>>)
        ELSE Returned(f.heap[f.ret.ref].data)

\* what the call of frame f gives when nothing else runs on the instance
Alone(me, f) ==
    CASE f.op = "sharp"      -> sharp(me, f.args[1])
      [] f.op = "flat"       -> flat(me, f.args[1])
      [] f.op = "ad_dagger"  -> ad_dagger(f.args[1], f.args[2], me)
      [] f.op = "Ad_dagger"  -> Ad_dagger(f.args[1], f.args[2], me)
      [] f.op = "sym"        -> sym(f.args[1], f.args[2], me)
      [] f.op = "sym_dagger" -> sym_dagger(f.args[1], f.args[2], me)
      [] OTHER               -> PlainResult(f.op, f.args[1], f.args[2])

WellCond(me) == me.gamma[1] > 4 * me.alpha[1] + 2 * me.beta[1]

Opposite(kind) == IF kind = "sharp" THEN "flat" ELSE "sharp"

IsTransformStep(e) == e.step \in {"fft", "operator", "ifft"}

\* C2: a sharp or flat call on a non-contiguous input ends at its first step
\* with the assertion error: the instance (scratch buffer included) is left as
\* it was, no array is allocated or copied, no transform is logged, nothing is
\* returned.
C2_RejectsNonContiguous ==
    [][\A c \in Callers :
          (/\ pc[c] = "enter"
           /\ pc'[c] # "enter"
           /\ ~frame[c].heap[frame[c].m].contig)
          => /\ pc'[c] = "done"
             /\ frame'[c].ret = [exc |-> "AssertionError", ref |-> 0]
             /\ self' = self
             /\ frame'[c].heap = frame[c].heap
             /\ frame'[c].log = frame[c].log
             /\ frame'[c].out = 0]_vars

C2_Witness ==
    \E c \in Callers :
        /\ Done(c)
        /\ frame[c].op \in MetricOps
        /\ ~frame[c].args[1].contig
        /\ frame[c].ret.exc = "AssertionError"

\* C3 as stated: Ad always raises NotImplementedError, and on a 3-D instance
\* operator_fourier and every sharp or flat call end in NotImplementedError.
C3_AsStated ==
    \A c \in Callers :
        Done(c) =>
            /\ frame[c].op = "Ad" => frame[c].ret.exc = "NotImplementedError"
            /\ (self.dim = 3 /\ frame[c].op \in MetricOps \cup {"operator_fourier"})
                    => frame[c].ret.exc = "NotImplementedError"

\* C3 amended: Ad always raises NotImplementedError; on a 3-D instance
\* operator_fourier raises it for either value of inverse, and a sharp or flat
\* call never returns a field: it ends in NotImplementedError when its input is
\* C-contiguous and in the assertion error when it is not.
C3_NotImplemented ==
    \A c \in Callers :
        Done(c) =>
            /\ frame[c].op = "Ad" => frame[c].ret.exc = "NotImplementedError"
            /\ (self.dim = 3 /\ frame[c].op = "operator_fourier")
                    => frame[c].ret.exc = "NotImplementedError"
            /\ (self.dim = 3 /\ frame[c].op \in MetricOps)
                    => /\ frame[c].ret.ref = 0
                       /\ frame[c].ret.exc =
                            IF frame[c].args[1].contig THEN "NotImplementedError"
                                                       ELSE "AssertionError"

C3_Witness ==
    \E c \in Callers :
        /\ Done(c)
        /\ self.dim = 3
        /\ frame[c].op = "flat"
        /\ frame[c].args[1].contig
        /\ frame[c].ret.exc = "NotImplementedError"

\* C5 as stated: on every grid, a sharp or flat call on a contiguous input of
\* a well-conditioned instance returns a field that the opposite call maps
\* back to the input.
C5_AsStated ==
    \A c \in Callers :
        (/\ Done(c)
         /\ frame[c].op \in MetricOps
         /\ frame[c].args[1].contig
         /\ WellCond(self))
        => /\ frame[c].ret.exc = "none"
           /\ metric_call(self, Opposite(frame[c].op),
                          Arr(self.shape, Result(c).data, TRUE))
                = Returned(frame[c].args[1].data)

\* C5 amended: on a 2-D instance, a sharp or flat call that returns has run
\* exactly one forward transform, one operator application and one inverse
\* transform, scaled on the forward leg only in sharp and on the inverse leg
\* only in flat, with the inverse operator in sharp and the forward one in
\* flat; and when gamma > 4 alpha + 2 beta the opposite call maps the returned
\* field back to the input.
C5_MutualInverses ==
    \A c \in Callers :
        (/\ Done(c)
         /\ frame[c].op \in MetricOps
         /\ self.dim = 2
         /\ frame[c].ret.exc = "none")
        => /\ SelectSeq(frame[c].log, IsTransformStep)
                = <<[step |-> "fft", flag |-> frame[c].op = "sharp"],
                    [step |-> "operator", flag |-> frame[c].op = "sharp"],
                    [step |-> "ifft", flag |-> frame[c].op = "flat"]>>
           /\ WellCond(self)
                => metric_call(self, Opposite(frame[c].op),
                               Arr(self.shape, Result(c).data, TRUE))
                     = Returned(frame[c].args[1].data)

C5_Witness ==
    \E c \in Callers :
        /\ Done(c)
        /\ frame[c].op = "sharp"
        /\ self.shape = <<1, 2, 4, 4>>
        /\ self.beta # R0
        /\ WellCond(self)
        /\ frame[c].ret.exc = "none"
        /\ Result(c).data # frame[c].args[1].data

\* C9: once the instance is constructed, no step of any call changes an
\* attribute other than the scratch buffer Fv.
C9_OnlyScratchWritten ==
    [][ctor = "ok" =>
          /\ ctor' = "ok"
          /\ [self' EXCEPT !.Fv = <<>>] = [self EXCEPT !.Fv = <<>>]]_vars

C9_Witness ==
    /\ ctor = "ok"
    /\ ncalls = MaxCalls
    /\ \E c \in Callers : Done(c) /\ frame[c].op \in MetricOps /\ frame[c].ret.exc = "none"
    /\ self.Fv \notin {Fill(Len(self.Fv), <<R0, R0>>), Fill(Len(self.Fv), <<R1, R1>>)}

\* C10: with the calls on a 2-D instance serialized, every finished sharp,
\* flat or dagger call has given what the same call gives on its own,
\* whatever ran before it; and the field the first flat of a dagger operator
\* returned is still what flat gives for that argument.
C10_HistoryIndependent ==
    \A c \in Callers :
        (/\ Done(c)
         /\ self.dim = 2
         /\ frame[c].op \in MetricOps \cup DaggerOps)
        => /\ Result(c) = Alone(self, frame[c])
           /\ (frame[c].op \in DaggerOps /\ frame[c].ret.exc = "none")
                => Returned(frame[c].heap[3].data)
                     = flat(self, frame[c].args[FirstFlat(frame[c].op)])

C10_Witness ==
    \E c \in Callers :
        /\ Done(c)
        /\ ncalls = MaxCalls
        /\ self.dim = 2
        /\ frame[c].op = "ad_dagger"
        /\ frame[c].ret.exc = "none"
        /\ self.Fv # Fill(Len(self.Fv), <<R0, R0>>)

\* C1: construction succeeds exactly when len(shape) - 2 is 2 or 3 and the
\* precision is 'single' or 'double'; it fails with the dimensionality error
\* whenever the rank is not 2 or 3 (shapes of fewer than two axes included,
\* whatever the precision), with the unsupported-precision error when the rank
\* is valid and the precision is not; and a failed construction has created
\* no scratch buffer, lookup table or plan.
C1_AsStated ==
    ctor # "none" =>
        LET validRank == (Len(given.shape) - 2) \in {2, 3}
            validPrec == given.precision \in {"single", "double"}
        IN  /\ (ctor = "ok") <=> (validRank /\ validPrec)
            /\ ~validRank => ctor = "InvalidDimension"
            /\ (validRank /\ ~validPrec) => ctor = "UnsupportedPrecision"
            /\ ctor # "ok" => /\ self.Fv = <<>>
                              /\ self.luts = NoLuts
                              /\ self.fftplan = NoPlan
                              /\ self.ifftplan = NoPlan

\* C4: a construction with gamma <= 4 alpha + 2 beta that completes has
\* printed the ill-conditioning warning, and one with gamma > 4 alpha + 2 beta
\* has printed nothing.
C4_AsStated ==
    ctor = "ok" =>
        IF given.gamma <= 4 * given.alpha + 2 * given.beta
        THEN stdout = <<"WARNING: ill-conditioned kernel">>
        ELSE stdout = <<>>

\* the discrete inner product: the sum over the grid of the pointwise products
Inner(a, b) == LET Term(p) == RMul(a[p], b[p]) IN RSum(Term, 1, Len(a))

IsConstant(x) == x = ConstantField(x.shape)

\* callers c and d hold ad_star(v, m) and ad(v, w) for one v
PairingCase(c, d) ==
    /\ Done(c) /\ Done(d)
    /\ frame[c].op = "ad_star" /\ frame[d].op = "ad"
    /\ frame[c].args[1] = frame[d].args[1]

C7_WrongOnlyWhenRaced ==
    \A c \in Callers :
        (/\ Done(c)
         /\ frame[c].op \in MetricOps
         /\ Result(c) # Alone(self, frame[c]))
        => frame[c].raced

C7_Witness ==
    \E c \in Callers :
        /\ Done(c)
        /\ frame[c].op \in MetricOps
        /\ frame[c].ret.exc = "none"
        /\ frame[c].raced
        /\ Result(c) # Alone(self, frame[c])
        /\ \E d \in Callers \ {c} : frame[d].op \in MetricOps

AdjRepOps == (PlainOps \ {"Ad"}) \cup DaggerOps

\* C8 as stated: every AdjRep operator called concurrently with other AdjRep
\* operators on one shared AdjRep returns what the same call returns alone,
\* leaves its input fields as they were and leaves dim as it was.
C8_AsStated ==
    \A c \in Callers :
        (Done(c) /\ frame[c].op \in AdjRepOps /\ ~frame[c].direct)
        => /\ Result(c) = Alone(self, frame[c])
           /\ frame[c].heap[1] = frame[c].args[1]
           /\ frame[c].heap[2] = frame[c].args[2]
           /\ adj.dim = frame[c].dim

\* C8 amended: every AdjRep operator called concurrently on one shared AdjRep
\* leaves its input fields and dim as they were; ad, ad_star and Ad_star
\* return what the same call returns alone, and ad_dagger, Ad_dagger, sym and
\* sym_dagger do so when no other call was inside sharp or flat of the same
\* metric while they ran.
C8_SharedAdjRep ==
    \A c \in Callers :
        (Done(c) /\ frame[c].op \in AdjRepOps)
        => /\ (frame[c].op \in PlainOps \/ ~frame[c].overlap)
                => Result(c) = Alone(self, frame[c])
           /\ frame[c].heap[1] = frame[c].args[1]
           /\ frame[c].heap[2] = frame[c].args[2]
           /\ adj.dim = frame[c].dim

C8_Witness ==
    \E c \in Callers :
        /\ Done(c)
        /\ frame[c].op \in DaggerOps
        /\ ~frame[c].overlap
        /\ frame[c].ret.exc = "none"
        /\ \E d \in Callers \ {c} : Done(d) /\ frame[d].op \in AdjRepOps

====
